---- MODULE Spec2Model ----
(***************************************************************************)
(* Model of the two components of the policyholder application:           *)
(*   - the claim submission handler, POST /api/claims/submit              *)
(*     (src/app/api/claims/submit/route.ts)                               *)
(*   - the PolicyholderDashboard view and its fetchData operation         *)
(*     (src/unnamed/part_000)                                             *)
(* Every asynchronous function is cut at its awaits: one action runs the  *)
(* synchronous code between two suspension points.                        *)
(***************************************************************************)
EXTENDS Integers, Sequences, FiniteSets, TLC

(***************************************************************************)
(* JavaScript values, tagged so that values of different types compare.   *)
(***************************************************************************)
Undefined == [t |-> "undefined"]
Null == [t |-> "null"]
Str(s) == [t |-> "string", v |-> s]
Num(n) == [t |-> "number", v |-> n]
Obj(r) == [t |-> "object", v |-> r]

\* ToBoolean on the values used here: undefined, null, "" and 0 are falsy.
Truthy(x) == x \notin {Undefined, Null, Str(""), Num(0)}

\* a || b
OrElse(a, b) == IF Truthy(a) THEN a ELSE b

\* Property read x.k on a non-nullish value: undefined when x has no such key.
Get(x, k) == IF x.t = "object" /\ k \in DOMAIN x.v THEN x.v[k] ELSE Undefined

(***************************************************************************)
(* Bounds                                                                  *)
(***************************************************************************)
MaxRequests == 2
MaxFetches == 3

(***************************************************************************)
(* Claim submission handler                                                *)
(***************************************************************************)
VARIABLES
    nodeEnv,        \* process.env.NODE_ENV as the request being handled reads it
    envBaseUrl,     \* process.env.NEXT_PUBLIC_BASE_URL as the request being handled reads it
    hpc,            \* position of POST: idle, awaitBody, awaitFetch, awaitText, awaitJson, done
    host,           \* headers().get('host') of the request being handled
    body,           \* const body (line 8)
    fetchLog,       \* calls of fetch made for the request being handled
    fetchResult,    \* outcome of the awaited fetch: pending, rejected or a response
    fraudAnalysis,  \* const fraudAnalysis (line 44)
    sent,           \* responses returned for the request being handled
    served          \* number of requests received so far

hvars == <<nodeEnv, envBaseUrl, hpc, host, body, fetchLog, fetchResult, fraudAnalysis, sent, served>>

(***************************************************************************)
(* Policyholder dashboard                                                  *)
(***************************************************************************)
VARIABLES
    dataMap,        \* useState({}): cached response body per category (line 9)
    activeTab,      \* useState("policies") (line 10)
    loading,        \* useState(false) (line 11)
    error,          \* useState(null) (line 12)
    route,          \* where router.push last navigated to
    fetches         \* the calls of fetchData in call order, each with its position

dvars == <<dataMap, activeTab, loading, error, route, fetches>>

vars == <<hvars, dvars>>

NodeEnvs == {"production", "development", "test"}
EnvBaseUrls == {Undefined, Str(""), Str("http://cfg.internal:8080")}
Hosts == {Null, Str(""), Str("app.example.com")}

ClaimFields == {"claimType", "dateOfIncident", "incidentLocation", "incidentDescription", "claimAmount"}

FullPayload ==
    Obj([claimType |-> Str("auto"), dateOfIncident |-> Str("2024-05-01"),
         incidentLocation |-> Str("Pokhara"), incidentDescription |-> Str("rear-ended"),
         claimAmount |-> Num(1200), policyNumber |-> Str("P-7")])

PartialPayload == Obj([claimType |-> Str("auto"), policyNumber |-> Str("P-7")])

\* What request.json() can resolve to: any JSON value, the literal null included.
RequestBodies == {FullPayload, PartialPayload, Null, Num(5)}

\* What request.json() rejects with on a body that is not JSON.
RequestParseErrors == {"Unexpected token o in JSON at position 1"}

FetchErrors == {"fetch failed"}
ErrorTexts == {"", "Internal Server Error"}
TextErrors == {"terminated"}
JsonErrors == {"Unexpected end of JSON input"}

\* What fraudAnalysisRes.json() can resolve to.
FraudBodies ==
    {Null, Num(0), Num(7), Obj([riskLevel |-> Str("low")]),
     Obj([fraudRiskScore |-> Num(42), riskLevel |-> Str("low")]),
     Obj([fraudRiskScore |-> Null])}

Pending == [t |-> "pending"]
Rejected(m) == [t |-> "rejected", message |-> m]
Response(ok) == [t |-> "response", ok |-> ok]

\* Line 15.
Protocol(env) == IF env = "production" THEN "https" ELSE "http"

\* Line 14.
HostOf(h) == OrElse(h, Str("localhost:3000"))

\* The Host header taking precedence over the configured base URL.
BaseUrlHostFirst(env, base, h) ==
    IF Truthy(h) THEN Str(Protocol(env) \o "://" \o h.v)
    ELSE OrElse(base, Str(Protocol(env) \o "://localhost:3000"))

\* Line 16: process.env.NEXT_PUBLIC_BASE_URL || `${protocol}://${host}`.
BaseUrl(env, base, h) == OrElse(base, Str(Protocol(env) \o "://" \o HostOf(h).v))

\* Line 22: the URL of the forwarded call.
FraudUrl(env, base, h) == BaseUrl(env, base, h).v \o "/api/claims/analyze-fraud"

\* Lines 27-35: JSON.stringify drops the keys whose value is undefined.
ClaimData(b) == [k \in {f \in ClaimFields : Get(b, f) # Undefined} |-> Get(b, k)]

\* The validation without the check of the score field.
ValidFraudAnalysisNoFieldCheck(fa) == Truthy(fa)

\* Line 48, negated: the response passes the validation.
ValidFraudAnalysis(fa) == Truthy(fa) /\ Get(fa, "fraudRiskScore") # Undefined

\* Lines 56-59 (NextResponse.json without init: status 200).
SuccessResponse(fa) ==
    [status |-> 200, body |-> [message |-> "Claim submitted successfully", fraudAnalysis |-> fa]]

\* The inner catch without the caught error's message.
InnerCatchNoMessage(message) ==
    [status |-> 500, body |-> [error |-> "Failed to process claim", details |-> "Unknown error"]]

\* Lines 61-67.
InnerCatch(message) ==
    [status |-> 500, body |-> [error |-> "Failed to process claim", details |-> message]]

\* Lines 68-74.
OuterCatch(message) ==
    [status |-> 500, body |-> [error |-> "Failed to submit claim", details |-> message]]

\* A catch block that logs and falls through without returning its response.
ReturnDropped(s, r) == IF r.status = 500 THEN s ELSE Append(s, r)

\* `return NextResponse.json(...)` (lines 56, 63, 70): the response leaves the handler.
Return(s, r) == Append(s, r)

\* Line 41.
AnalyzeFailedMessage(errorText) == "Failed to analyze claim for fraud: " \o errorText

\* Reading body.claimType of null (line 29).
NullBodyMessage == "Cannot read properties of null (reading 'claimType')"

HInit ==
    /\ nodeEnv = "development"
    /\ envBaseUrl = Undefined
    /\ hpc = "idle"
    /\ host = Null
    /\ body = Undefined
    /\ fetchLog = <<>>
    /\ fetchResult = Pending
    /\ fraudAnalysis = Undefined
    /\ sent = <<>>
    /\ served = 0

DInit ==
    /\ dataMap = <<>>
    /\ activeTab = "policies"
    /\ loading = FALSE
    /\ error = Null
    /\ route = "/dashboard"
    /\ fetches = <<>>

Init == HInit /\ DInit

\* A request arrives; POST runs up to `await request.json()`.
ReceiveRequest ==
    /\ hpc \in {"idle", "done"}
    /\ served < MaxRequests
    /\ \E h \in Hosts : host' = h
    /\ \E e \in NodeEnvs : nodeEnv' = e
    /\ \E u \in EnvBaseUrls : envBaseUrl' = u
    /\ hpc' = "awaitBody"
    /\ body' = Undefined
    /\ fetchLog' = <<>>
    /\ fetchResult' = Pending
    /\ fraudAnalysis' = Undefined
    /\ sent' = <<>>
    /\ served' = served + 1
    /\ UNCHANGED dvars

\* request.json() rejects: the outer catch answers.
BodyRejected ==
    /\ hpc = "awaitBody"
    /\ \E m \in RequestParseErrors : sent' = Return(sent, OuterCatch(m))
    /\ hpc' = "done"
    /\ UNCHANGED <<dvars, nodeEnv, envBaseUrl, host, body, fetchLog, fetchResult, fraudAnalysis, served>>

\* request.json() resolves; lines 10-36 run up to `await fetch(...)`.  The
\* argument of fetch is evaluated inside the inner try: reading a property of
\* a null body throws there, before fetch is called.
BodyResolved ==
    /\ hpc = "awaitBody"
    /\ \E b \in RequestBodies :
        /\ body' = b
        /\ IF b = Null
           THEN /\ sent' = Return(sent, InnerCatch(NullBodyMessage))
                /\ hpc' = "done"
                /\ fetchLog' = fetchLog
           ELSE /\ fetchLog' = Append(fetchLog,
                        [url |-> FraudUrl(nodeEnv, envBaseUrl, host),
                         method |-> "POST",
                         body |-> [claimData |-> ClaimData(b)]])
                /\ hpc' = "awaitFetch"
                /\ sent' = sent
    /\ UNCHANGED <<dvars, nodeEnv, envBaseUrl, host, fetchResult, fraudAnalysis, served>>

\* fetch rejects (network failure): the inner catch answers.
FetchRejected ==
    /\ hpc = "awaitFetch"
    /\ \E m \in FetchErrors :
        /\ fetchResult' = Rejected(m)
        /\ sent' = Return(sent, InnerCatch(m))
    /\ hpc' = "done"
    /\ UNCHANGED <<dvars, nodeEnv, envBaseUrl, host, body, fetchLog, fraudAnalysis, served>>

\* fetch resolves; line 38 picks the body reader to await.
FetchResolved ==
    /\ hpc = "awaitFetch"
    /\ \E ok \in BOOLEAN :
        /\ fetchResult' = Response(ok)
        /\ hpc' = IF ok THEN "awaitJson" ELSE "awaitText"
    /\ UNCHANGED <<dvars, nodeEnv, envBaseUrl, host, body, fetchLog, fraudAnalysis, sent, served>>

\* Lines 39-41 after `await fraudAnalysisRes.text()`.
TextSettled ==
    /\ hpc = "awaitText"
    /\ \/ \E e \in ErrorTexts : sent' = Return(sent, InnerCatch(AnalyzeFailedMessage(e)))
       \/ \E m \in TextErrors : sent' = Return(sent, InnerCatch(m))
    /\ hpc' = "done"
    /\ UNCHANGED <<dvars, nodeEnv, envBaseUrl, host, body, fetchLog, fetchResult, fraudAnalysis, served>>

\* `await fraudAnalysisRes.json()` rejects on a body that is not JSON.
JsonRejected ==
    /\ hpc = "awaitJson"
    /\ \E m \in JsonErrors : sent' = Return(sent, InnerCatch(m))
    /\ hpc' = "done"
    /\ UNCHANGED <<dvars, nodeEnv, envBaseUrl, host, body, fetchLog, fetchResult, fraudAnalysis, served>>

\* Lines 44-59 after `await fraudAnalysisRes.json()` resolves.
JsonResolved ==
    /\ hpc = "awaitJson"
    /\ \E fa \in FraudBodies :
        /\ fraudAnalysis' = fa
        /\ sent' = Return(sent, IF ValidFraudAnalysis(fa)
                                THEN SuccessResponse(fa)
                                ELSE InnerCatch("Invalid fraud analysis response"))
    /\ hpc' = "done"
    /\ UNCHANGED <<dvars, nodeEnv, envBaseUrl, host, body, fetchLog, fetchResult, served>>

HandlerNext ==
    \/ ReceiveRequest
    \/ BodyRejected
    \/ BodyResolved
    \/ FetchRejected
    \/ FetchResolved
    \/ TextSettled
    \/ JsonRejected
    \/ JsonResolved

HandlerSpec == Init /\ [][HandlerNext]_vars

(***************************************************************************)
(* Dashboard: data                                                         *)
(***************************************************************************)
Arr(q) == [t |-> "array", v |-> q]

\* Lines 30-37.
Endpoints ==
    [policies |-> "/api/policyholder/mypolicies",
     claims |-> "/api/policyholder/myclaims",
     payments |-> "/api/policyholder/mypayments",
     status |-> "/api/policyholder/mystatus",
     about |-> "/api/policyholder/profile/display",
     help |-> "/api/support"]

\* Line 165: the tabs of the navigation.
Tabs == {"policies", "claims", "payments", "status", "about", "help"}

\* The tabs the user selects in the checked runs.
SelectedTabs == {"policies", "claims", "about"}

RowA == Obj([id |-> Str("c-1"), claim_type |-> Str("auto"), public_status |-> Str("SUBMITTED")])
RowB == Obj([id |-> Str("c-2"), claim_type |-> Str("home"), public_status |-> Str("IN_REVIEW")])
RowC == Obj([id |-> Str("c-3"), public_status |-> Str("PAID"), claim_amount |-> Num(900)])

\* What res.json() of a category endpoint can resolve to.
Bodies == {Null, Arr(<<>>), Arr(<<RowA>>), Arr(<<RowC, RowB>>), Obj([full_name |-> Str("Asha")])}

\* What supabase.auth.getSession() can resolve its session to.
Sessions == {Null, Obj([access_token |-> Str("tok-1")])}

\* x.length
Length(x) == IF x.t = "array" THEN Num(Len(x.v)) ELSE Undefined

\* dataMap[tab]
Lookup(m, tab) == IF tab \in DOMAIN m THEN m[tab] ELSE Undefined

\* The session check left out.
NoSessionUnchecked(session) == FALSE

\* Line 47: !session.
NoSession(session) == ~Truthy(session)

\* Lines 52-59: the GET request of a category.
CategoryRequest(type, session) ==
    [url |-> Endpoints[type], method |-> "GET",
     authorization |-> "Bearer " \o Get(session, "access_token").v]

\* The cache rebuilt from the fetched category alone.
SetDataMapOnlyType(prev, type, data) == [k \in {type} |-> data]

\* Line 68: (prev) => ({ ...prev, [type]: data }).
SetDataMap(prev, type, data) ==
    [k \in DOMAIN prev \cup {type} |-> IF k = type THEN data ELSE prev[k]]

\* A call of fetchData suspended at `await supabase.auth.getSession()`.
NewFetch(type) ==
    [type |-> type, pc |-> "awaitSession", session |-> Undefined,
     request |-> Undefined, result |-> Undefined]

InFlight(f) == f.pc # "done"

(***************************************************************************)
(* Dashboard: rendering                                                    *)
(***************************************************************************)
\* String(val) of a cell value.
StringOf(val) ==
    IF val.t = "string" THEN val.v
    ELSE IF val.t = "number" THEN ToString(val.v)
    ELSE val.t

\* The generic renderer without its empty-set check.
renderTableNoEmptyCheck(data) ==
    [tag |-> "table",
     head |-> IF Len(data.v) > 0 THEN DOMAIN data.v[1].v ELSE {},
     rows |-> [i \in 1..Len(data.v) |->
                   [k \in DOMAIN data.v[i].v |-> StringOf(data.v[i].v[k])]]]

\* Lines 80-108.
renderTable(data) ==
    IF ~Truthy(Length(data))
    THEN [tag |-> "p", text |-> "No data found."]
    ELSE [tag |-> "table",
          head |-> DOMAIN data.v[1].v,
          rows |-> [i \in 1..Len(data.v) |->
                        [k \in DOMAIN data.v[i].v |-> StringOf(data.v[i].v[k])]]]

\* Lines 137-141.
BadgeClass(status) ==
    IF status = Str("SUBMITTED") THEN "bg-blue-100 text-blue-800"
    ELSE IF status = Str("IN_REVIEW") THEN "bg-yellow-100 text-yellow-800"
    ELSE "bg-green-100 text-green-800"

\* Lines 110-156 (the locale-formatted date and amount cells are left out).
renderClaimsTable(claims) ==
    IF ~Truthy(Length(claims))
    THEN [tag |-> "p", text |-> "No claims found. Click \"Submit a New Claim\" to file a claim."]
    ELSE [tag |-> "table",
          head |-> {"Claim ID", "Type", "Date", "Amount", "Status", "Description"},
          rows |-> [i \in 1..Len(claims.v) |->
                        [id |-> Get(claims.v[i], "id"),
                         type |-> Get(claims.v[i], "claim_type"),
                         badge |-> BadgeClass(Get(claims.v[i], "public_status"))]]]

\* Line 158.
DataToRender(m, tab) == OrElse(Lookup(m, tab), Arr(<<>>))

\* Lines 222-229: what the main pane shows.
View ==
    [loadingP |-> loading,
     errorP |-> IF Truthy(error) THEN error ELSE Undefined,
     content |-> IF ~loading /\ ~Truthy(error)
                 THEN (IF activeTab = "claims"
                       THEN renderClaimsTable(DataToRender(dataMap, activeTab))
                       ELSE renderTable(DataToRender(dataMap, activeTab)))
                 ELSE Undefined]

(***************************************************************************)
(* Dashboard: fetchData                                                    *)
(* The state setters called between two awaits are applied together.      *)
(***************************************************************************)
\* Lines 26-45: fetchData(type) up to its first await.
StartFetch(type) ==
    /\ Len(fetches) < MaxFetches
    /\ IF type \notin DOMAIN Endpoints
       THEN /\ error' = Str("Invalid data type requested.")
            /\ loading' = FALSE
            /\ fetches' = Append(fetches, [NewFetch(type) EXCEPT !.pc = "done"])
       ELSE /\ error' = Null
            /\ loading' = TRUE
            /\ fetches' = Append(fetches, NewFetch(type))
    /\ UNCHANGED <<dataMap, route>>

\* Lines 76-78 on mount: the effect fetches the initial tab.  No call of
\* fetchData has been made exactly as long as the effect has not run.
Mount ==
    /\ fetches = <<>>
    /\ StartFetch(activeTab)
    /\ UNCHANGED <<hvars, activeTab>>

\* Line 168 and lines 76-78: selecting another tab sets activeTab and the
\* effect fetches it; selecting the active tab changes nothing.
SelectTab ==
    /\ fetches # <<>>
    /\ \E tab \in SelectedTabs :
        /\ tab # activeTab
        /\ activeTab' = tab
        /\ StartFetch(tab)
    /\ UNCHANGED hvars

\* Line 200: the Refresh button.
Refresh ==
    /\ fetches # <<>>
    /\ StartFetch(activeTab)
    /\ UNCHANGED <<hvars, activeTab>>

\* Lines 69-73: the catch and finally blocks.
SessionRejected ==
    /\ \E i \in 1..Len(fetches) :
        /\ fetches[i].pc = "awaitSession"
        /\ fetches' = [fetches EXCEPT ![i].pc = "done"]
    /\ error' = Str("An unexpected error occurred.")
    /\ loading' = FALSE
    /\ UNCHANGED <<hvars, dataMap, activeTab, route>>

\* Lines 45-59 after getSession() resolves.
SessionResolved ==
    /\ \E i \in 1..Len(fetches), s \in Sessions :
        /\ fetches[i].pc = "awaitSession"
        /\ IF NoSession(s)
           THEN /\ route' = "/login"
                /\ loading' = FALSE
                /\ error' = error
                /\ fetches' = [fetches EXCEPT ![i].pc = "done", ![i].session = s]
           ELSE IF s \in {Null, Undefined}
           THEN /\ error' = Str("An unexpected error occurred.")
                /\ loading' = FALSE
                /\ route' = route
                /\ fetches' = [fetches EXCEPT ![i].pc = "done", ![i].session = s]
           ELSE /\ fetches' = [fetches EXCEPT ![i].pc = "awaitRes", ![i].session = s,
                                              ![i].request = CategoryRequest(fetches[i].type, s)]
                /\ UNCHANGED <<loading, error, route>>
    /\ UNCHANGED <<hvars, dataMap, activeTab>>

\* fetch rejects (network error): lines 69-73.
ResponseRejected ==
    /\ \E i \in 1..Len(fetches) :
        /\ fetches[i].pc = "awaitRes"
        /\ fetches' = [fetches EXCEPT ![i].pc = "done"]
    /\ error' = Str("An unexpected error occurred.")
    /\ loading' = FALSE
    /\ UNCHANGED <<hvars, dataMap, activeTab, route>>

\* Lines 61-67 after fetch resolves: res.ok picks the next await.
ResponseArrived ==
    /\ \E i \in 1..Len(fetches), ok \in BOOLEAN :
        /\ fetches[i].pc = "awaitRes"
        /\ fetches' = [fetches EXCEPT ![i].pc = IF ok THEN "awaitJson" ELSE "awaitErrJson"]
    /\ UNCHANGED <<hvars, dataMap, activeTab, loading, error, route>>

\* Lines 62-64 and 72: res.json().catch(() => ({})) always resolves.
ErrorBodySettled ==
    /\ \E i \in 1..Len(fetches) :
        /\ fetches[i].pc = "awaitErrJson"
        /\ fetches' = [fetches EXCEPT ![i].pc = "done"]
    /\ error' = Str("Failed to fetch data.")
    /\ loading' = FALSE
    /\ UNCHANGED <<hvars, dataMap, activeTab, route>>

\* res.json() of a success response rejects: lines 69-73.
DataRejected ==
    /\ \E i \in 1..Len(fetches) :
        /\ fetches[i].pc = "awaitJson"
        /\ fetches' = [fetches EXCEPT ![i].pc = "done"]
    /\ error' = Str("An unexpected error occurred.")
    /\ loading' = FALSE
    /\ UNCHANGED <<hvars, dataMap, activeTab, route>>

\* Lines 67-68 and 72.
DataResolved ==
    /\ \E i \in 1..Len(fetches), data \in Bodies :
        /\ fetches[i].pc = "awaitJson"
        /\ fetches' = [fetches EXCEPT ![i].pc = "done", ![i].result = data]
        /\ dataMap' = SetDataMap(dataMap, fetches[i].type, data)
    /\ loading' = FALSE
    /\ UNCHANGED <<hvars, activeTab, error, route>>

DashboardNext ==
    \/ Mount
    \/ SelectTab
    \/ Refresh
    \/ SessionRejected
    \/ SessionResolved
    \/ ResponseRejected
    \/ ResponseArrived
    \/ ErrorBodySettled
    \/ DataRejected
    \/ DataResolved

DashboardSpec == Init /\ [][DashboardNext]_vars

(***************************************************************************)
(* Properties of the claim submission handler                              *)
(***************************************************************************)
HasScoreField(fa) == fa.t = "object" /\ "fraudRiskScore" \in DOMAIN fa.v

IsErrorResponse(r) == r.status = 500 /\ "error" \in DOMAIN r.body /\ "message" \notin DOMAIN r.body

\* C1: when the fraud-analysis call answers with a success status and its
\* parsed body is null or has no fraudRiskScore field, the handler returns
\* the status 500 error response and not 'Claim submitted successfully'.
C1_MissingScoreIsError ==
    (/\ hpc = "done"
     /\ fetchResult = Response(TRUE)
     /\ fraudAnalysis # Undefined
     /\ ~HasScoreField(fraudAnalysis))
    => /\ Len(sent) = 1
       /\ IsErrorResponse(sent[1])
       /\ \A i \in 1..Len(sent) : sent[i] # SuccessResponse(fraudAnalysis)

C1_Witness ==
    /\ hpc = "done"
    /\ fetchResult = Response(TRUE)
    /\ fraudAnalysis = Obj([riskLevel |-> Str("low")])
    /\ sent = <<InnerCatch("Invalid fraud analysis response")>>

\* C2: when the fraud-analysis fetch throws, the handler returns a status
\* 500 response whose details field is the thrown error's message.
C2_FetchThrowGives500 ==
    \A m \in FetchErrors :
        fetchResult = Rejected(m)
        => /\ hpc = "done"
           /\ Len(sent) = 1
           /\ sent[1].status = 500
           /\ sent[1].body.details = m

C2_Witness ==
    /\ fetchResult = Rejected("fetch failed")
    /\ Len(sent) = 1
    /\ sent[1].status = 500
    /\ sent[1].body.details = "fetch failed"

\* The fraud-analysis call was made and it failed: it threw, answered with a
\* non-success status, or its body was unparsable or failed the validation.
FraudStepFailed ==
    /\ hpc = "done"
    /\ fetchLog # <<>>
    /\ \/ fetchResult.t = "rejected"
       \/ fetchResult = Response(FALSE)
       \/ fetchResult = Response(TRUE) /\ ~HasScoreField(fraudAnalysis)

\* The handler failed without ever calling the fraud-analysis endpoint.
FailedBeforeFraudStep ==
    /\ hpc = "done"
    /\ fetchLog = <<>>

\* C5: a failure is classified by where it arises: a failure of the
\* fraud-analysis step yields 'Failed to process claim' with the detail
\* attached, a failure before that step yields 'Failed to submit claim';
\* both are status 500 error responses.
C5_ClassifiedByOrigin ==
    /\ FraudStepFailed
        => /\ Len(sent) = 1
           /\ IsErrorResponse(sent[1])
           /\ sent[1].body.error = "Failed to process claim"
           /\ "details" \in DOMAIN sent[1].body
    /\ FailedBeforeFraudStep
        => /\ Len(sent) = 1
           /\ IsErrorResponse(sent[1])
           /\ sent[1].body.error = "Failed to submit claim"

\* C6: for every request the fraud-analysis endpoint is called at most once
\* and the handler returns exactly one response: none while it is
\* suspended, one when it has finished.
C6_OneCallOneResponse ==
    /\ Len(fetchLog) <= 1
    /\ hpc \in {"awaitBody", "awaitFetch", "awaitText", "awaitJson"} => Len(sent) = 0
    /\ hpc = "done" => Len(sent) = 1

C6_Witness ==
    /\ hpc = "done"
    /\ fetchResult.t = "rejected"
    /\ Len(fetchLog) = 1
    /\ Len(sent) = 1

ForwardPath == "/api/claims/analyze-fraud"

\* C7 as stated: the forwarded URL is built from the Host header whenever
\* the header is present, the configured base URL or localhost:3000 serve
\* only when it is absent, and the scheme follows the production flag.
C7_HostHeaderFirst ==
    fetchLog # <<>> =>
        IF host \notin {Null, Str("")}
        THEN fetchLog[1].url = Protocol(nodeEnv) \o "://" \o host.v \o ForwardPath
        ELSE \/ /\ envBaseUrl \notin {Undefined, Str("")}
                /\ fetchLog[1].url = envBaseUrl.v \o ForwardPath
             \/ fetchLog[1].url = Protocol(nodeEnv) \o "://localhost:3000" \o ForwardPath

\* C7 amended: the configured base URL is used whenever it is set and not
\* empty; otherwise the base URL is scheme://host with the Host header (or
\* localhost:3000 when the header is absent or empty) and the scheme https
\* exactly in a production configuration.
C7_ConfiguredBaseFirst ==
    fetchLog # <<>> =>
        fetchLog[1].url =
            (IF envBaseUrl \notin {Undefined, Str("")}
             THEN envBaseUrl.v
             ELSE (IF nodeEnv = "production" THEN "https" ELSE "http") \o "://"
                  \o (IF host \notin {Null, Str("")} THEN host.v ELSE "localhost:3000"))
            \o ForwardPath

C7_Witness ==
    /\ fetchLog # <<>>
    /\ nodeEnv = "production"
    /\ envBaseUrl = Str("http://cfg.internal:8080")
    /\ host = Str("app.example.com")
    /\ fetchLog[1].url = "http://cfg.internal:8080/api/claims/analyze-fraud"

(***************************************************************************)
(* Properties of the dashboard                                             *)
(***************************************************************************)
FetchIds == 1..Len(fetches)

\* C3: a fetch whose session resolution yields no session redirects to the
\* login view, finishes, and never issues its HTTP GET.
C3_NoSessionNoGet ==
    \A i \in FetchIds :
        fetches[i].session = Null
        => /\ route = "/login"
           /\ fetches[i].pc = "done"
           /\ fetches[i].request = Undefined
           /\ fetches[i].result = Undefined

C3_Witness ==
    \E i \in FetchIds :
        /\ fetches[i].session = Null
        /\ fetches[i].pc = "done"
        /\ route = "/login"
        /\ \E j \in FetchIds : fetches[j].request # Undefined

\* Fetch i finishes in this step, with a response body (success) or without.
Finishes(i) == i \in FetchIds /\ fetches[i].pc # "done" /\ fetches'[i].pc = "done"
Succeeds(i) == Finishes(i) /\ fetches'[i].result # Undefined

\* C4: a step of a fetch for category c changes the cached rows of no other
\* category; a fetch that finishes without success changes no cached rows,
\* and one that succeeds replaces exactly the entry of c by the response body.
C4_OnlyOwnCategory ==
    [][/\ \A c \in Tabs :
            Lookup(dataMap', c) # Lookup(dataMap, c)
            => \E i \in FetchIds : Succeeds(i) /\ fetches[i].type = c
       /\ \A i \in FetchIds :
            /\ (Finishes(i) /\ ~Succeeds(i)) => dataMap' = dataMap
            /\ Succeeds(i) =>
                /\ DOMAIN dataMap' = DOMAIN dataMap \cup {fetches[i].type}
                /\ dataMap'[fetches[i].type] = fetches'[i].result
                /\ \A c \in DOMAIN dataMap \ {fetches[i].type} : dataMap'[c] = dataMap[c]
      ]_vars

\* A fetch of one category has failed while another category holds rows.
C4_Witness ==
    \E i \in FetchIds, c \in DOMAIN dataMap :
        /\ fetches[i].pc = "done"
        /\ fetches[i].request # Undefined
        /\ fetches[i].result = Undefined
        /\ fetches[i].type # c
        /\ fetches[i].type \in DOMAIN dataMap
        /\ Truthy(Length(dataMap[c]))
        /\ i = Len(fetches)

\* The successful fetches of category c, and the last issued among them.
Successful(c) == {i \in FetchIds : fetches[i].type = c /\ fetches[i].result # Undefined}
LastIssued(S) == CHOOSE i \in S : \A j \in S : j <= i

\* C8: the cached rows of a category are those returned by the most
\* recently issued successful fetch of that category, in whatever order the
\* responses of overlapping fetches arrive.
C8_CacheIsLastIssued ==
    \A c \in Tabs :
        Successful(c) # {}
        => Lookup(dataMap, c) = fetches[LastIssued(Successful(c))].result

CachedEmpty(tab) == Lookup(dataMap, tab) \in {Undefined, Null, Arr(<<>>)}

\* C9: when the cached result set of the selected category is empty, no
\* fetch is loading and no error is set, the view shows the 'no data'
\* message of the category's renderer and no table.
C9_EmptyShowsNoData ==
    (CachedEmpty(activeTab) /\ ~loading /\ error = Null)
    => /\ View.content.tag = "p"
       /\ View.content.text =
            IF activeTab = "claims"
            THEN "No claims found. Click \"Submit a New Claim\" to file a claim."
            ELSE "No data found."

C9_Witness ==
    /\ activeTab = "claims"
    /\ Lookup(dataMap, "claims") = Arr(<<>>)
    /\ Truthy(Length(Lookup(dataMap, "policies")))
    /\ ~loading
    /\ error = Null
    /\ View.content.tag = "p"

\* C10: loading is true whenever a call of fetchData is in flight and false
\* once every started call has finished; no table or 'no data' message is
\* rendered while a fetch of the active tab is pending.
C10_LoadingTracksInFlight ==
    /\ (\E i \in FetchIds : InFlight(fetches[i])) => loading
    /\ (fetches # <<>> /\ \A i \in FetchIds : ~InFlight(fetches[i])) => ~loading
    /\ (\E i \in FetchIds : InFlight(fetches[i]) /\ fetches[i].type = activeTab)
        => View.content = Undefined

====
